---- MODULE Spec2Model ----
(***************************************************************************)
(* Model of server/utils/sqlite.ts: the MessageManager over the messages   *)
(* table, its retry wrapper and its validation functions.                  *)
(*                                                                         *)
(* JavaScript runs the manager on one thread; a call gives up control only *)
(* at an `await`.  Every action below is one synchronous segment of one    *)
(* call, from one await to the next.                                       *)
(***************************************************************************)
EXTENDS Integers, Sequences, FiniteSets, TLC

VARIABLES
  rows,        \* the messages table: a set of rows
  retryCount,  \* MessageManager.retryCount: a function from the keys present to counts
  now,         \* the value Date.now() returns
  calls,       \* per caller slot: the manager call in flight, its position and result
  lockBudget,  \* how many more accesses the storage engine may answer "database is locked"
  begun,       \* number of manager calls begun so far
  nInserted,   \* number of insertMessage calls that returned successfully
  nDeleted,    \* number of deleteMessage calls that returned successfully
  lastWrite    \* per message id: the last statement that changed its row, with the call's arguments

\* the module's start-up: initDatabase, MessageManager.getInstance, getMessageManager
VARIABLES
  fs,                      \* the file system: the directory, the database file, its schema
  opened,                  \* number of handles `new Database(dbPath)` has returned
  nInitOk,                 \* number of initDatabase runs that returned a handle
  instance,                \* MessageManager.instance
  constructed,             \* number of MessageManager objects constructed
  messageManagerInstance,  \* the module variable
  databaseInstance,        \* the module variable
  consumers,               \* per caller slot: the consumer function call in flight
  microtasks,              \* the callers whose await has a continuation queued, oldest first
  bootBegun,               \* number of consumer function and getInstance calls so far
  initFailures,            \* how many more initDatabase runs may fail
  passed                   \* the handles getInstance has been called with, in order

bootVars ==
  <<fs, opened, nInitOk, instance, constructed, messageManagerInstance, databaseInstance,
    consumers, microtasks, bootBegun, initFailures, passed>>

vars ==
  <<rows, retryCount, now, calls, lockBudget, begun, nInserted, nDeleted, lastWrite, bootVars>>

----------------------------------------------------------------------------
(* Program constants *)

MAX_CONTENT_LENGTH == 1000000
MAX_RETRIES == 3

(* Bounds of the model *)

NSlots == 2          \* callers that can have a call in flight at the same time
MaxCalls == 3        \* calls one caller makes one after the other in one behaviour
MaxLocked == 1       \* "database is locked" answers the engine gives to that caller
MaxOverlapCalls == 2 \* calls the overlapping callers make in one behaviour
MaxOverlapLocked == 1 \* "database is locked" answers the engine gives to them
MaxRetryCalls == 2   \* calls made in a behaviour in which the engine is locked often
MaxRetryLocked == 4  \* "database is locked" answers the engine gives in it
MaxNestedCalls == 2  \* insertMessage calls made while the engine stays locked for long
MaxNestedLocked == 5 \* "database is locked" answers the engine gives to them
MaxStuckCalls == 2   \* calls made while the engine answers every access with the error
MaxCount == 6        \* the attempts of a call are counted up to this number
MaxClock == 2        \* largest value of Date.now()
MaxBootCalls == 3    \* consumer function and getInstance calls during start-up
MaxInitFailures == 1 \* initDatabase runs that fail

Slots == 1..NSlots

----------------------------------------------------------------------------
(* JavaScript numbers.  A number is hi * 2^53 + lo + half / 2, so that     *)
(* Number.MAX_SAFE_INTEGER = 2^53 - 1 and non-integers can be argued about *)
(* with small integers.  Only lo is stored in a row (validation has then   *)
(* established hi = 0 and half = 0).                                       *)

Num(n) == [hi |-> 0, lo |-> n, half |-> 0]
Two53 == [hi |-> 1, lo |-> 0, half |-> 0]        \* 2^53 = MAX_SAFE_INTEGER + 1
OneAndHalf == [hi |-> 0, lo |-> 1, half |-> 1]   \* 1.5

NumberIsInteger(x) == x.half = 0

\* x <= 0
NumLeZero(x) == x.hi < 0 \/ (x.hi = 0 /\ (x.lo < 0 \/ (x.lo = 0 /\ x.half = 0)))

\* x > Number.MAX_SAFE_INTEGER, i.e. x > 2^53 - 1 (|lo| is far below 2^53)
NumGtMaxSafe(x) == x.hi > 1 \/ (x.hi = 1 /\ (x.lo >= 0 \/ (x.lo = -1 /\ x.half = 1)))

\* updatedAt < createdAt
NumLess(x, y) ==
  \/ x.hi < y.hi
  \/ x.hi = y.hi /\ x.lo < y.lo
  \/ x.hi = y.hi /\ x.lo = y.lo /\ x.half < y.half

\* `${x}`
FormatNum(x) ==
  IF x.hi = 0
    THEN IF x.half = 0 THEN ToString(x.lo) ELSE ToString(x.lo) \o ".5"
    ELSE "2^53*" \o ToString(x.hi) \o "+" \o ToString(x.lo)

----------------------------------------------------------------------------
(* Strings.  A content string is a sequence of pieces; a piece is one      *)
(* character or a run of characters with a known UTF-8 length.  An error   *)
(* message is a sequence of words.                                         *)

Whitespace == {" ", "\t", "\n"}

PieceBytes(p) ==
  CASE p = "a" -> 1
    [] p = "b" -> 1
    [] p \in Whitespace -> 1
    [] p = "e'" -> 2             \* a two-byte character
    [] p = "x*1000000" -> 1000000 \* a run of 1,000,000 one-byte characters
    [] OTHER -> 1

RECURSIVE ByteLength(_)
ByteLength(s) == IF s = <<>> THEN 0 ELSE PieceBytes(Head(s)) + ByteLength(Tail(s))

RECURSIVE TrimStart(_)
TrimStart(s) == IF s # <<>> /\ Head(s) \in Whitespace THEN TrimStart(Tail(s)) ELSE s

RECURSIVE TrimEnd(_)
TrimEnd(s) ==
  IF s # <<>> /\ s[Len(s)] \in Whitespace THEN TrimEnd(SubSeq(s, 1, Len(s) - 1)) ELSE s

Trim(s) == TrimEnd(TrimStart(s))

\* a value passed as content: a string, or a value of another type
Str(s) == [isString |-> TRUE, chars |-> s]
NotAString == [isString |-> FALSE, chars |-> <<>>]

\* String.prototype.includes on messages, word by word
Includes(msg, sub) ==
  \E i \in 1..(Len(msg) - Len(sub) + 1) : SubSeq(msg, i, i + Len(sub) - 1) = sub

----------------------------------------------------------------------------
(* Errors and results *)

NoError == <<>>
InvalidIdMsg ==
  <<"Invalid", "message", "ID:", "must", "be", "a", "positive", "integer", "within", "safe", "range">>
InvalidCreatedMsg ==
  <<"Invalid", "created_at", "timestamp:", "must", "be", "a", "positive", "integer">>
InvalidUpdatedMsg ==
  <<"Invalid", "updated_at", "timestamp:", "must", "be", "a", "positive", "integer">>
EarlierMsg ==
  <<"updated_at", "timestamp", "cannot", "be", "earlier", "than", "created_at", "timestamp">>
NotStringMsg == <<"Content", "must", "be", "a", "string">>
EmptyMsg == <<"Content", "cannot", "be", "empty">>
TooLongMsg ==
  <<"Content", "exceeds", "maximum", "length", "limit", "of", ToString(MAX_CONTENT_LENGTH), "bytes">>
DeleteNotFoundMsg == <<"Message", "not", "found">>
ExistsMsg(m) == <<"Message", "with", "ID", FormatNum(m), "already", "exists">>
UpdateNotFoundMsg(m) == <<"Message", "with", "ID", FormatNum(m), "not", "found">>

\* raised by the storage engine
LockedMsg == <<"database", "is", "locked">>
UniqueMsg == <<"UNIQUE", "constraint", "failed:", "messages.message_id">>

Undefined == [undefined |-> TRUE]
Null == [null |-> TRUE]

Ok(v) == [ok |-> TRUE, val |-> v, msg |-> NoError]
Throw(m) == [ok |-> FALSE, val |-> Undefined, msg |-> m]

----------------------------------------------------------------------------
(* Validation layer: each function gives the message of the error it       *)
(* throws, or NoError.                                                     *)

validateMessageId(messageId) ==
  IF ~NumberIsInteger(messageId) \/ NumLeZero(messageId) \/ NumGtMaxSafe(messageId)
    THEN InvalidIdMsg
    ELSE NoError

validateTimestamps(createdAt, updatedAt) ==
  IF ~NumberIsInteger(createdAt) \/ NumLeZero(createdAt) THEN InvalidCreatedMsg
  ELSE IF ~NumberIsInteger(updatedAt) \/ NumLeZero(updatedAt) THEN InvalidUpdatedMsg
  ELSE IF NumLess(updatedAt, createdAt) THEN EarlierMsg
  ELSE NoError


\* as validateContent, testing the length of the content before it is trimmed
validateContentUntrimmed(content) ==
  IF ~content.isString THEN NotStringMsg
  ELSE IF Len(content.chars) = 0 THEN EmptyMsg
  ELSE IF ByteLength(content.chars) > MAX_CONTENT_LENGTH THEN TooLongMsg
  ELSE NoError

validateContent(content) ==
  IF ~content.isString THEN NotStringMsg
  ELSE IF Len(Trim(content.chars)) = 0 THEN EmptyMsg
  ELSE IF ByteLength(content.chars) > MAX_CONTENT_LENGTH THEN TooLongMsg
  ELSE NoError

----------------------------------------------------------------------------
(* Retry policy *)

\* as isRetryableError, matching 'not found' as well
isRetryableErrorOrNotFound(msg) ==
  \/ Includes(msg, <<"database", "is", "locked">>)
  \/ Includes(msg, <<"busy">>)
  \/ Includes(msg, <<"no", "response">>)
  \/ Includes(msg, <<"not", "found">>)

isRetryableError(msg) ==
  \/ Includes(msg, <<"database", "is", "locked">>)
  \/ Includes(msg, <<"busy">>)
  \/ Includes(msg, <<"no", "response">>)

\* the key template strings
KeyOf(name, messageId) == <<name, "_", FormatNum(messageId)>>
KeyGetMessages == <<"getMessages">>
KeyGetMessageCount == <<"getMessageCount">>

\* this.retryCount.get(key) || 0
currentRetries(rc, key) == IF key \in DOMAIN rc THEN rc[key] ELSE 0

\* this.retryCount.set(key, n)
MapSet(rc, key, n) == [k \in (DOMAIN rc) \cup {key} |-> IF k = key THEN n ELSE rc[k]]

\* this.retryCount.delete(key)
MapDelete(rc, key) == [k \in (DOMAIN rc) \ {key} |-> rc[k]]


\* as ShouldRetry, with <= where the code has <
ShouldRetryInclusive(rc, key, msg) ==
  currentRetries(rc, key) <= MAX_RETRIES /\ isRetryableError(msg)

\* the condition under which the catch block of retry tries again
ShouldRetry(rc, key, msg) == currentRetries(rc, key) < MAX_RETRIES /\ isRetryableError(msg)


\* as RetryCountAfterCatch, setting the counter to 1 where the code adds 1 to it
RetryCountAfterCatchRestart(rc, key, msg) ==
  IF ShouldRetry(rc, key, msg)
    THEN MapSet(rc, key, 1)
    ELSE MapDelete(rc, key)

\* the map after the catch block of retry
RetryCountAfterCatch(rc, key, msg) ==
  IF ShouldRetry(rc, key, msg)
    THEN MapSet(rc, key, currentRetries(rc, key) + 1)
    ELSE MapDelete(rc, key)

\* the map after operation() has returned a value: retry returns it and leaves the map alone
RetryCountAfterSuccess(rc, key) == rc

----------------------------------------------------------------------------
(* The messages table *)

Matching(rws, n) == {r \in rws : r.message_id = n}

RowIds(rws) == {r.rowid : r \in rws}

MaxOf(S) == CHOOSE m \in S : \A n \in S : n <= m

\* the rowid the engine assigns to a new row
NextRowId(rws) == IF rws = {} THEN 1 ELSE MaxOf(RowIds(rws)) + 1


\* as SelectOne, without the WHERE clause
SelectOneAnyRow(rws, n) ==
  IF rws = {} THEN Null ELSE CHOOSE r \in rws : \A q \in rws : r.rowid <= q.rowid

\* the row a SELECT ... WHERE message_id = ? LIMIT 1 finds, or null
SelectOne(rws, n) ==
  IF Matching(rws, n) = {}
    THEN Null
    ELSE CHOOSE r \in Matching(rws, n) : \A q \in Matching(rws, n) : r.rowid <= q.rowid

\* rowid as id, message_id, content, created_at, updated_at
AsDataMessage(r) ==
  [id |-> r.rowid, message_id |-> r.message_id, content |-> r.content,
   created_at |-> r.created_at, updated_at |-> r.updated_at]

RECURSIVE SelectAll(_)
SelectAll(rws) ==
  IF rws = {} THEN <<>>
  ELSE LET first == CHOOSE r \in rws : \A q \in rws : r.rowid <= q.rowid
       IN <<AsDataMessage(first)>> \o SelectAll(rws \ {first})


\* as UniqueMessageId, for a schema that declares no constraint
NoUniqueMessageId == FALSE

\* the schema declares message_id unique
UniqueMessageId == TRUE

\* INSERT INTO messages: the error the engine raises, or NoError
InsertError(rws, n) ==
  IF UniqueMessageId /\ Matching(rws, n) # {} THEN UniqueMsg ELSE NoError

InsertRow(rws, n, content, createdAt, updatedAt) ==
  rws \cup {[rowid |-> NextRowId(rws), message_id |-> n, content |-> content,
             created_at |-> createdAt, updated_at |-> updatedAt]}

\* UPDATE messages SET content = ?, updated_at = ? WHERE message_id = ?
UpdateRows(rws, n, content, t) ==
  {IF r.message_id = n THEN [r EXCEPT !.content = content, !.updated_at = t] ELSE r : r \in rws}

\* DELETE FROM messages WHERE message_id = ?
DeleteRows(rws, n) == rws \ Matching(rws, n)

----------------------------------------------------------------------------
(* Manager operations.  A call record holds the arguments of the call, its *)
(* position (pc), the settled result of the operation (res) and, for       *)
(* insertMessage, of the nested messageExists call (xres).  locked is the  *)
(* number of the call's next storage accesses that the engine answers with *)
(* "database is locked".                                                   *)

IdleCall ==
  [pc |-> "idle", op |-> "none", messageId |-> Num(0), content |-> Str(<<>>),
   createdTimestamp |-> Num(0), updatedTimestamp |-> Num(0),
   locked |-> 0, lockedAtStart |-> 0, res |-> Ok(Undefined), xres |-> Ok(Undefined),
   attempts |-> 0, xattempts |-> 0, lookups |-> 0, delays |-> 0,
   alone |-> TRUE, before |-> {}]

InFlight(cr) == cr.pc \notin {"idle", "done"}

Outcome(res, rws, locked) == [res |-> res, rows |-> rws, locked |-> locked]


\* as messageExistsOp, comparing the row with undefined: a missing row is null, so always true
messageExistsOpUndefined(cr, rws) ==
  IF validateMessageId(cr.messageId) # NoError
    THEN Outcome(Throw(validateMessageId(cr.messageId)), rws, cr.locked)
  ELSE IF cr.locked > 0
    THEN Outcome(Throw(LockedMsg), rws, cr.locked - 1)
  ELSE Outcome(Ok(SelectOne(rws, cr.messageId.lo) # Undefined), rws, cr.locked)

\* the operation of messageExists
messageExistsOp(cr, rws) ==
  IF validateMessageId(cr.messageId) # NoError
    THEN Outcome(Throw(validateMessageId(cr.messageId)), rws, cr.locked)
  ELSE IF cr.locked > 0
    THEN Outcome(Throw(LockedMsg), rws, cr.locked - 1)
  ELSE Outcome(Ok(SelectOne(rws, cr.messageId.lo) # Null), rws, cr.locked)


\* as deleteMessageOp, without the check of result.changes
deleteMessageOpUnchecked(cr, rws) ==
  IF validateMessageId(cr.messageId) # NoError
    THEN Outcome(Throw(validateMessageId(cr.messageId)), rws, cr.locked)
  ELSE IF cr.locked > 0
    THEN Outcome(Throw(LockedMsg), rws, cr.locked - 1)
  ELSE Outcome(Ok(Undefined), DeleteRows(rws, cr.messageId.lo), cr.locked)

\* the operation of deleteMessage
deleteMessageOp(cr, rws) ==
  IF validateMessageId(cr.messageId) # NoError
    THEN Outcome(Throw(validateMessageId(cr.messageId)), rws, cr.locked)
  ELSE IF cr.locked > 0
    THEN Outcome(Throw(LockedMsg), rws, cr.locked - 1)
  ELSE IF Cardinality(Matching(rws, cr.messageId.lo)) = 0
    THEN Outcome(Throw(DeleteNotFoundMsg), DeleteRows(rws, cr.messageId.lo), cr.locked)
  ELSE Outcome(Ok(Undefined), DeleteRows(rws, cr.messageId.lo), cr.locked)


\* as getMessageOp, with the lookup before the validation
getMessageOpLookupFirst(cr, rws) ==
  IF cr.locked > 0
    THEN Outcome(Throw(LockedMsg), rws, cr.locked - 1)
  ELSE IF validateMessageId(cr.messageId) # NoError
    THEN Outcome(Throw(validateMessageId(cr.messageId)), rws, cr.locked)
  ELSE IF SelectOne(rws, cr.messageId.lo) = Null
    THEN Outcome(Ok(Null), rws, cr.locked)
  ELSE Outcome(Ok(AsDataMessage(SelectOne(rws, cr.messageId.lo))), rws, cr.locked)

\* the operation of getMessage
getMessageOp(cr, rws) ==
  IF validateMessageId(cr.messageId) # NoError
    THEN Outcome(Throw(validateMessageId(cr.messageId)), rws, cr.locked)
  ELSE IF cr.locked > 0
    THEN Outcome(Throw(LockedMsg), rws, cr.locked - 1)
  ELSE IF SelectOne(rws, cr.messageId.lo) = Null
    THEN Outcome(Ok(Null), rws, cr.locked)
  ELSE Outcome(Ok(AsDataMessage(SelectOne(rws, cr.messageId.lo))), rws, cr.locked)

\* the operation of getMessages
getMessagesOp(cr, rws) ==
  IF cr.locked > 0
    THEN Outcome(Throw(LockedMsg), rws, cr.locked - 1)
    ELSE Outcome(Ok(SelectAll(rws)), rws, cr.locked)

\* the operation of getMessageCount
getMessageCountOp(cr, rws) ==
  IF cr.locked > 0
    THEN Outcome(Throw(LockedMsg), rws, cr.locked - 1)
    ELSE Outcome(Ok(Cardinality(rws)), rws, cr.locked)


\* as updateMessageOp, storing a new row when no row has the message_id
updateMessageOpUpsert(cr, rws, t) ==
  IF validateMessageId(cr.messageId) # NoError
    THEN Outcome(Throw(validateMessageId(cr.messageId)), rws, cr.locked)
  ELSE IF validateContent(cr.content) # NoError
    THEN Outcome(Throw(validateContent(cr.content)), rws, cr.locked)
  ELSE IF cr.locked > 0
    THEN Outcome(Throw(LockedMsg), rws, cr.locked - 1)
  ELSE IF Cardinality(Matching(rws, cr.messageId.lo)) = 0
    THEN Outcome(Throw(UpdateNotFoundMsg(cr.messageId)),
                 InsertRow(rws, cr.messageId.lo, cr.content.chars, t, t), cr.locked)
  ELSE Outcome(Ok(Undefined), UpdateRows(rws, cr.messageId.lo, cr.content.chars, t), cr.locked)

\* the operation of updateMessage; t is Date.now()
updateMessageOp(cr, rws, t) ==
  IF validateMessageId(cr.messageId) # NoError
    THEN Outcome(Throw(validateMessageId(cr.messageId)), rws, cr.locked)
  ELSE IF validateContent(cr.content) # NoError
    THEN Outcome(Throw(validateContent(cr.content)), rws, cr.locked)
  ELSE IF cr.locked > 0
    THEN Outcome(Throw(LockedMsg), rws, cr.locked - 1)
  ELSE IF Cardinality(Matching(rws, cr.messageId.lo)) = 0
    THEN Outcome(Throw(UpdateNotFoundMsg(cr.messageId)),
                 UpdateRows(rws, cr.messageId.lo, cr.content.chars, t), cr.locked)
  ELSE Outcome(Ok(Undefined), UpdateRows(rws, cr.messageId.lo, cr.content.chars, t), cr.locked)

\* insertMessage up to its await: the three validations
insertValidation(cr) ==
  IF validateMessageId(cr.messageId) # NoError THEN validateMessageId(cr.messageId)
  ELSE IF validateContent(cr.content) # NoError THEN validateContent(cr.content)
  ELSE validateTimestamps(cr.createdTimestamp, cr.updatedTimestamp)


\* as insertAfterExists, without the check of exists
insertAfterExistsUnchecked(cr, rws, exists) ==
  IF cr.locked > 0
    THEN Outcome(Throw(LockedMsg), rws, cr.locked - 1)
  ELSE IF InsertError(rws, cr.messageId.lo) # NoError
    THEN Outcome(Throw(InsertError(rws, cr.messageId.lo)), rws, cr.locked)
  ELSE Outcome(Ok(Undefined),
               InsertRow(rws, cr.messageId.lo, cr.content.chars,
                         cr.createdTimestamp.lo, cr.updatedTimestamp.lo),
               cr.locked)

\* insertMessage after its await: exists is the value messageExists returned
insertAfterExists(cr, rws, exists) ==
  IF exists
    THEN Outcome(Throw(ExistsMsg(cr.messageId)), rws, cr.locked)
  ELSE IF cr.locked > 0
    THEN Outcome(Throw(LockedMsg), rws, cr.locked - 1)
  ELSE IF InsertError(rws, cr.messageId.lo) # NoError
    THEN Outcome(Throw(InsertError(rws, cr.messageId.lo)), rws, cr.locked)
  ELSE Outcome(Ok(Undefined),
               InsertRow(rws, cr.messageId.lo, cr.content.chars,
                         cr.createdTimestamp.lo, cr.updatedTimestamp.lo),
               cr.locked)

\* an operation that has no await in it
SimpleOp(cr, rws, t) ==
  CASE cr.op = "messageExists" -> messageExistsOp(cr, rws)
    [] cr.op = "deleteMessage" -> deleteMessageOp(cr, rws)
    [] cr.op = "getMessage" -> getMessageOp(cr, rws)
    [] cr.op = "getMessages" -> getMessagesOp(cr, rws)
    [] cr.op = "getMessageCount" -> getMessageCountOp(cr, rws)
    [] cr.op = "updateMessage" -> updateMessageOp(cr, rws, t)

\* the key a call passes to retry
RetryKey(cr) ==
  CASE cr.op = "getMessages" -> KeyGetMessages
    [] cr.op = "getMessageCount" -> KeyGetMessageCount
    [] OTHER -> KeyOf(cr.op, cr.messageId)

\* the key of the messageExists call inside insertMessage
InnerKey(cr) == KeyOf("messageExists", cr.messageId)

\* every key a call can touch
KeysOf(cr) ==
  IF cr.op = "insertMessage" THEN {RetryKey(cr), InnerKey(cr)} ELSE {RetryKey(cr)}

\* retry calls operation(): the operation runs up to its first await or to its end
Invoke(cr, rws, t) ==
  IF cr.op = "insertMessage"
    THEN IF insertValidation(cr) # NoError
           THEN [call |-> [cr EXCEPT !.pc = "settle", !.res = Throw(insertValidation(cr)),
                                     !.attempts = @ + 1],
                 rows |-> rws]
           ELSE [call |-> [cr EXCEPT !.pc = "xsettle",
                                     !.xres = messageExistsOp(cr, rws).res,
                                     !.locked = messageExistsOp(cr, rws).locked,
                                     !.attempts = @ + 1, !.xattempts = 1, !.lookups = @ + 1],
                 rows |-> rws]
    ELSE [call |-> [cr EXCEPT !.pc = "settle",
                              !.res = SimpleOp(cr, rws, t).res,
                              !.locked = SimpleOp(cr, rws, t).locked,
                              !.attempts = @ + 1],
          rows |-> SimpleOp(cr, rws, t).rows]

----------------------------------------------------------------------------
(* Inputs of the calls.  Each set holds valid arguments and, for every     *)
(* branch of the validation, arguments that the branch rejects.            *)

ValidIds == {Num(1), Num(2)}
InvalidIds == {Num(0), OneAndHalf, Two53}
Hello == Str(<<"a">>)
World == Str(<<"b">>)
InvalidContents == {Str(<<" ">>), Str(<<"x*1000000", "a">>), NotAString}
ValidTimes == {<<Num(1), Num(1)>>, <<Num(1), Num(2)>>, <<Num(2), Num(2)>>}
InvalidTimes ==
  {<<Num(0), Num(1)>>, <<OneAndHalf, Num(2)>>, <<Num(1), Num(0)>>, <<Num(1), OneAndHalf>>,
   <<Num(2), Num(1)>>}

Args(m, s, times) ==
  [messageId |-> m, content |-> s, createdTimestamp |-> times[1], updatedTimestamp |-> times[2]]

NoContent == Str(<<>>)
NoTimes == <<Num(0), Num(0)>>

\* messageExists is called with every kind of identifier, the other methods with
\* the valid ones and one that is not
ExistsInputs == {Args(m, NoContent, NoTimes) : m \in ValidIds \cup InvalidIds}
IdInputs == {Args(m, NoContent, NoTimes) : m \in ValidIds \cup {Num(0)}}
NoInputs == {Args(Num(0), NoContent, NoTimes)}
\* a message is inserted as "a" and updated to "b"
UpdateInputs ==
  {Args(m, World, NoTimes) : m \in ValidIds \cup {Num(0)}}
    \cup {Args(Num(1), s, NoTimes) : s \in InvalidContents}
InsertInputs ==
  {Args(m, Hello, tt) : m \in ValidIds, tt \in ValidTimes}
    \cup {Args(Num(0), Hello, <<Num(1), Num(1)>>)}
    \cup {Args(Num(1), s, <<Num(1), Num(1)>>) : s \in InvalidContents}
    \cup {Args(Num(1), Hello, tt) : tt \in InvalidTimes}

\* the inputs of calls that overlap in time
OverlapIdInputs == {Args(Num(1), NoContent, NoTimes)}
OverlapInsertInputs == {Args(Num(1), s, <<Num(1), Num(1)>>) : s \in {Hello, World}}

\* the inputs of insertMessage calls during a long lock
NestedInsertInputs == {Args(Num(1), Hello, <<Num(1), Num(1)>>)}

\* the error the validation at the head of an operation throws for these arguments
ValidationError(op, a) ==
  CASE op \in {"messageExists", "deleteMessage", "getMessage"} -> validateMessageId(a.messageId)
    [] op = "updateMessage" ->
         IF validateMessageId(a.messageId) # NoError THEN validateMessageId(a.messageId)
         ELSE validateContent(a.content)
    [] op = "insertMessage" -> insertValidation(a)
    [] OTHER -> NoError

\* the message_id values a row can have
IdValues == {m.lo : m \in ValidIds}

NoWrite == [kind |-> "none", args |-> Args(Num(0), NoContent, NoTimes)]

\* lastWrite after the operation of call cr has run and left the call as `after`:
\* a mutating operation that settles with a value has executed its statement
Written(lw, cr, after) ==
  IF after.pc = "settle" /\ after.res.ok
       /\ cr.op \in {"insertMessage", "updateMessage", "deleteMessage"}
    THEN [lw EXCEPT ![cr.messageId.lo] =
            [kind |-> cr.op,
             args |-> Args(cr.messageId, cr.content,
                           <<cr.createdTimestamp, cr.updatedTimestamp>>)]]
    ELSE lw

----------------------------------------------------------------------------
(* Start-up: initDatabase, MessageManager.getInstance, getMessageManager.   *)
(* A handle is the number of the `new Database` call that returned it.     *)

\* null, where a handle can stand
NoHandle == 0

\* handles that code outside this module has opened and can pass to getInstance
ExternalHandles == {0 - 1, 0 - 2}

InitFailedMsg == <<"Failed", "to", "initialize", "database:">>

\* where a run of initDatabase can fail
InitStages == {"mkdir", "open", "pragma", "read", "exec"}

\* the stage is executed by a run on file system f
StageRuns(f, stage) ==
  CASE stage = "mkdir" -> ~f.dir
    [] stage \in {"read", "exec"} -> ~f.file
    [] OTHER -> TRUE

\* One run of initDatabase (it has no await: it runs to its end).  f is the file
\* system, fail the stage that throws ("none": no stage does), handle the handle that
\* `new Database` returns.  isNew is read before the handle is opened; opening creates
\* the file; the bootstrap script runs in a transaction only when isNew.
initDatabase(f, fail, handle) ==
  IF ~f.dir /\ fail = "mkdir"
    THEN [fs |-> f, res |-> Throw(InitFailedMsg), opens |-> 0]
  ELSE IF fail = "open"
    THEN [fs |-> [f EXCEPT !.dir = TRUE], res |-> Throw(InitFailedMsg), opens |-> 0]
  ELSE IF fail = "pragma" \/ (~f.file /\ fail \in {"read", "exec"})
    THEN [fs |-> [f EXCEPT !.dir = TRUE, !.file = TRUE],
          res |-> Throw(InitFailedMsg), opens |-> 1]
  ELSE [fs |-> [f EXCEPT !.dir = TRUE, !.file = TRUE,
                         !.schema = IF ~f.file THEN TRUE ELSE @],
        res |-> Ok(handle), opens |-> 1]

\* new MessageManager(database), the n-th object constructed
NewMessageManager(n, database) == [id |-> n, database |-> database]


\* as getInstance, constructing a manager for every handle
getInstanceRebind(inst, n, database) == NewMessageManager(n + 1, database)

\* MessageManager.getInstance: MessageManager.instance after the call, which is also
\* the value returned; n is the number of objects constructed before
getInstance(inst, n, database) ==
  IF inst = Null THEN NewMessageManager(n + 1, database) ELSE inst

IdleConsumer == [pc |-> "idle", init |-> Ok(NoHandle), manager |-> Null]

BootInit ==
  /\ fs = [dir |-> FALSE, file |-> FALSE, schema |-> FALSE]
  /\ opened = 0
  /\ nInitOk = 0
  /\ instance = Null
  /\ constructed = 0
  /\ messageManagerInstance = Null
  /\ databaseInstance = NoHandle
  /\ consumers = [c \in Slots |-> IdleConsumer]
  /\ microtasks = <<>>
  /\ bootBegun = 0
  /\ initFailures = MaxInitFailures
  /\ passed = <<>>

----------------------------------------------------------------------------
(* Actions *)

InitWith(budget) ==
  /\ rows = {}
  /\ retryCount = [k \in {} |-> 0]
  /\ now = 1
  /\ calls = [c \in Slots |-> IdleCall]
  /\ lockBudget = budget
  /\ begun = 0
  /\ nInserted = 0
  /\ nDeleted = 0
  /\ lastWrite = [n \in IdValues |-> NoWrite]
  /\ BootInit

Init == InitWith(MaxLocked)

InitOverlap == InitWith(MaxOverlapLocked)

InitRetry == InitWith(MaxRetryLocked)

InitNested == InitWith(MaxNestedLocked)

\* every call meets the locked engine once when it begins
InitStuck == InitWith(MaxStuckCalls)

Quiet == \A d \in Slots : calls[d].pc = "idle"

\* the operation gets as far as Date.now()
ReadsClock(cr) == cr.op = "updateMessage" /\ ValidationError(cr.op, cr) = NoError

\* the values Date.now() can return: the clock does not run backwards
ClockValues(cr) == IF ReadsClock(cr) THEN now..MaxClock ELSE {now}

\* A caller calls a manager method: retry runs the operation at once.  The engine
\* will answer the call's next k accesses with "database is locked".
Begin(c, op, a, k, cap) ==
  /\ calls[c].pc = "idle"
  /\ begun < cap
  /\ k <= lockBudget
  /\ LET cr == [IdleCall EXCEPT !.op = op, !.messageId = a.messageId, !.content = a.content,
                                !.createdTimestamp = a.createdTimestamp,
                                !.updatedTimestamp = a.updatedTimestamp,
                                !.locked = k, !.lockedAtStart = k, !.before = rows]
         sharing == {d \in Slots \ {c} : InFlight(calls[d]) /\ KeysOf(calls[d]) \cap KeysOf(cr) # {}}
     IN \E t \in ClockValues(cr) :
          /\ calls' = [d \in Slots |->
                         IF d = c THEN [Invoke(cr, rows, t).call EXCEPT !.alone = (sharing = {})]
                         ELSE IF d \in sharing THEN [calls[d] EXCEPT !.alone = FALSE]
                         ELSE calls[d]]
          /\ rows' = Invoke(cr, rows, t).rows
          /\ lastWrite' = Written(lastWrite, cr, Invoke(cr, rows, t).call)
          /\ now' = t
  /\ lockBudget' = lockBudget - k
  /\ begun' = begun + 1
  /\ UNCHANGED <<bootVars, retryCount, nInserted, nDeleted>>

BeginMessageExists(c, inputs, locks, cap) ==
  \E a \in inputs, k \in 0..locks : Begin(c, "messageExists", a, k, cap)

BeginDeleteMessage(c, inputs, locks, cap) ==
  \E a \in inputs, k \in 0..locks : Begin(c, "deleteMessage", a, k, cap)

BeginGetMessage(c, inputs, locks, cap) ==
  \E a \in inputs, k \in 0..locks : Begin(c, "getMessage", a, k, cap)

BeginGetMessages(c, locks, cap) ==
  \E a \in NoInputs, k \in 0..locks : Begin(c, "getMessages", a, k, cap)

BeginGetMessageCount(c, locks, cap) ==
  \E a \in NoInputs, k \in 0..locks : Begin(c, "getMessageCount", a, k, cap)

BeginInsertMessage(c, inputs, locks, cap) ==
  \E a \in inputs, k \in 0..locks : Begin(c, "insertMessage", a, k, cap)

BeginUpdateMessage(c, inputs, locks, cap) ==
  \E a \in inputs, k \in 0..locks : Begin(c, "updateMessage", a, k, cap)

\* `await operation()` of the call's own retry resumes: return the value, or the catch block
Settle(c) ==
  /\ calls[c].pc = "settle"
  /\ IF calls[c].res.ok
       THEN /\ calls' = [calls EXCEPT ![c].pc = "done"]
            /\ retryCount' = RetryCountAfterSuccess(retryCount, RetryKey(calls[c]))
            /\ nInserted' = IF calls[c].op = "insertMessage" THEN nInserted + 1 ELSE nInserted
            /\ nDeleted' = IF calls[c].op = "deleteMessage" THEN nDeleted + 1 ELSE nDeleted
       ELSE /\ calls' = [calls EXCEPT ![c].pc =
                           IF ShouldRetry(retryCount, RetryKey(calls[c]), calls[c].res.msg)
                             THEN "delay" ELSE "done"]
            /\ retryCount' = RetryCountAfterCatch(retryCount, RetryKey(calls[c]), calls[c].res.msg)
            /\ UNCHANGED <<nInserted, nDeleted>>
  /\ UNCHANGED <<bootVars, rows, now, lockBudget, begun, lastWrite>>

\* the RETRY_DELAY timer fires: retry calls itself and runs the operation again
DelayElapsed(c) ==
  /\ calls[c].pc = "delay"
  /\ \E t \in ClockValues(calls[c]) :
       /\ calls' = [calls EXCEPT ![c] = [Invoke(calls[c], rows, t).call EXCEPT !.delays = @ + 1]]
       /\ rows' = Invoke(calls[c], rows, t).rows
       /\ lastWrite' = Written(lastWrite, calls[c], Invoke(calls[c], rows, t).call)
       /\ now' = t
  /\ UNCHANGED <<bootVars, retryCount, lockBudget, begun, nInserted, nDeleted>>

\* `await operation()` of the nested messageExists call resumes
InnerSettle(c) ==
  /\ calls[c].pc = "xsettle"
  /\ IF calls[c].xres.ok
       THEN /\ calls' = [calls EXCEPT ![c].pc = "xreturned"]
            /\ retryCount' = RetryCountAfterSuccess(retryCount, InnerKey(calls[c]))
       ELSE /\ calls' = [calls EXCEPT ![c] =
                           IF ShouldRetry(retryCount, InnerKey(calls[c]), calls[c].xres.msg)
                             THEN [@ EXCEPT !.pc = "xdelay"]
                             ELSE [@ EXCEPT !.pc = "settle", !.res = calls[c].xres]]
            /\ retryCount' = RetryCountAfterCatch(retryCount, InnerKey(calls[c]), calls[c].xres.msg)
  /\ UNCHANGED <<bootVars, rows, now, lockBudget, begun, nInserted, nDeleted, lastWrite>>

\* the timer of the nested messageExists call fires
InnerDelayElapsed(c) ==
  /\ calls[c].pc = "xdelay"
  /\ calls' = [calls EXCEPT ![c] =
                 [@ EXCEPT !.pc = "xsettle",
                           !.xres = messageExistsOp(calls[c], rows).res,
                           !.locked = messageExistsOp(calls[c], rows).locked,
                           !.xattempts = @ + 1, !.lookups = @ + 1, !.delays = @ + 1]]
  /\ UNCHANGED <<bootVars, rows, retryCount, now, lockBudget, begun, nInserted, nDeleted, lastWrite>>

\* `await this.messageExists(messageId)` resumes in insertMessage
InsertAfterExists(c) ==
  /\ calls[c].pc = "xreturned"
  /\ calls' = [calls EXCEPT ![c] =
                 [@ EXCEPT !.pc = "settle",
                           !.res = insertAfterExists(calls[c], rows, calls[c].xres.val).res,
                           !.locked = insertAfterExists(calls[c], rows, calls[c].xres.val).locked]]
  /\ rows' = insertAfterExists(calls[c], rows, calls[c].xres.val).rows
  /\ lastWrite' = Written(lastWrite, calls[c],
                          [calls[c] EXCEPT !.pc = "settle",
                             !.res = insertAfterExists(calls[c], rows, calls[c].xres.val).res])
  /\ UNCHANGED <<bootVars, retryCount, now, lockBudget, begun, nInserted, nDeleted>>

\* the caller has received the value or the error
Return(c) ==
  /\ calls[c].pc = "done"
  /\ calls' = [calls EXCEPT ![c] = IdleCall]
  /\ UNCHANGED <<bootVars, rows, retryCount, now, lockBudget, begun, nInserted, nDeleted, lastWrite>>

\* the storage engine becomes locked again between the lookup and the INSERT of an insertMessage
Relock(c) ==
  /\ calls[c].pc = "xreturned"
  /\ calls[c].locked = 0
  /\ \E k \in 1..lockBudget :
       /\ calls' = [calls EXCEPT ![c].locked = k]
       /\ lockBudget' = lockBudget - k
  /\ UNCHANGED <<bootVars, rows, retryCount, now, begun, nInserted, nDeleted, lastWrite>>

\* one caller: a call begins when the call before it has returned
Next ==
  \/ Quiet /\ BeginMessageExists(1, ExistsInputs, MaxLocked, MaxCalls)
  \/ Quiet /\ BeginDeleteMessage(1, IdInputs, MaxLocked, MaxCalls)
  \/ Quiet /\ BeginGetMessage(1, IdInputs, MaxLocked, MaxCalls)
  \/ Quiet /\ BeginGetMessages(1, MaxLocked, MaxCalls)
  \/ Quiet /\ BeginGetMessageCount(1, MaxLocked, MaxCalls)
  \/ Quiet /\ BeginInsertMessage(1, InsertInputs, MaxLocked, MaxCalls)
  \/ Quiet /\ BeginUpdateMessage(1, UpdateInputs, MaxLocked, MaxCalls)
  \/ Settle(1)
  \/ DelayElapsed(1)
  \/ InnerSettle(1)
  \/ InnerDelayElapsed(1)
  \/ InsertAfterExists(1)
  \/ Return(1)
  \/ Relock(1)

Spec == Init /\ [][Next]_vars

\* several callers: calls overlap in time
NextOverlap ==
  \/ \E c \in Slots : BeginMessageExists(c, OverlapIdInputs, MaxOverlapLocked, MaxOverlapCalls)
  \/ \E c \in Slots : BeginDeleteMessage(c, OverlapIdInputs, MaxOverlapLocked, MaxOverlapCalls)
  \/ \E c \in Slots : BeginInsertMessage(c, OverlapInsertInputs, MaxOverlapLocked, MaxOverlapCalls)
  \/ \E c \in Slots : Settle(c)
  \/ \E c \in Slots : DelayElapsed(c)
  \/ \E c \in Slots : InnerSettle(c)
  \/ \E c \in Slots : InnerDelayElapsed(c)
  \/ \E c \in Slots : InsertAfterExists(c)
  \/ \E c \in Slots : Return(c)
  \/ \E c \in Slots : Relock(c)

SpecOverlap == InitOverlap /\ [][NextOverlap]_vars

\* overlapping calls of read operations for which the engine is locked up to
\* MaxRetryLocked times; messageExists(1) calls share a key, getMessageCount has its own
NextRetry ==
  \/ \E c \in Slots : BeginMessageExists(c, OverlapIdInputs, MaxRetryLocked, MaxRetryCalls)
  \/ \E c \in Slots : BeginGetMessageCount(c, MaxRetryLocked, MaxRetryCalls)
  \/ \E c \in Slots : Settle(c)
  \/ \E c \in Slots : DelayElapsed(c)
  \/ \E c \in Slots : Return(c)

SpecRetry == InitRetry /\ [][NextRetry]_vars

\* one caller inserts while the engine stays locked for up to MaxNestedLocked accesses
NextNested ==
  \/ Quiet /\ BeginInsertMessage(1, NestedInsertInputs, MaxNestedLocked, MaxNestedCalls)
  \/ Settle(1)
  \/ DelayElapsed(1)
  \/ InnerSettle(1)
  \/ InnerDelayElapsed(1)
  \/ InsertAfterExists(1)
  \/ Return(1)
  \/ Relock(1)

SpecNested == InitNested /\ [][NextNested]_vars

\* the call with its attempts counted up to MaxCount and its lookups and delays not counted
Counted(cr) ==
  [cr EXCEPT !.attempts = IF @ > MaxCount THEN MaxCount ELSE @,
             !.xattempts = 0, !.lookups = 0, !.delays = 0]

\* A call begins while the engine is locked: a messageExists(1) at any time, an
\* insertMessage(1) when no call is in flight; the messageExists calls that begin
\* after it overlap it and share the key of its nested call.
StuckBegin(c) ==
  \/ \E a \in OverlapIdInputs : Begin(c, "messageExists", a, 1, MaxStuckCalls)
  \/ Quiet /\ \E a \in NestedInsertInputs : Begin(c, "insertMessage", a, 1, MaxStuckCalls)

\* DelayElapsed while the engine is still locked: the next access fails as well
StuckDelayElapsed(c) ==
  /\ calls[c].pc = "delay"
  /\ LET cr == [calls[c] EXCEPT !.locked = 1]
     IN \E t \in ClockValues(cr) :
          /\ calls' = [calls EXCEPT ![c] =
                         Counted([Invoke(cr, rows, t).call EXCEPT !.delays = @ + 1])]
          /\ rows' = Invoke(cr, rows, t).rows
          /\ lastWrite' = Written(lastWrite, cr, Invoke(cr, rows, t).call)
          /\ now' = t
  /\ UNCHANGED <<bootVars, retryCount, lockBudget, begun, nInserted, nDeleted>>

\* InnerDelayElapsed while the engine is still locked
StuckInnerDelayElapsed(c) ==
  /\ calls[c].pc = "xdelay"
  /\ LET cr == [calls[c] EXCEPT !.locked = 1]
     IN calls' = [calls EXCEPT ![c] =
                    Counted([cr EXCEPT !.pc = "xsettle",
                                       !.xres = messageExistsOp(cr, rows).res,
                                       !.locked = messageExistsOp(cr, rows).locked,
                                       !.xattempts = @ + 1, !.lookups = @ + 1,
                                       !.delays = @ + 1])]
  /\ UNCHANGED <<bootVars, rows, retryCount, now, lockBudget, begun, nInserted, nDeleted,
                 lastWrite>>

\* overlapping calls while the engine answers every access with "database is locked"
NextStuck ==
  \/ \E c \in Slots : StuckBegin(c)
  \/ \E c \in Slots : Settle(c)
  \/ \E c \in Slots : StuckDelayElapsed(c)
  \/ \E c \in Slots : InnerSettle(c)
  \/ \E c \in Slots : StuckInnerDelayElapsed(c)
  \/ \E c \in Slots : Return(c)

SpecStuck == InitStuck /\ [][NextStuck]_vars

\* a continuation of some call runs or the timer of some call fires
StuckStep ==
  \E c \in Slots :
    Settle(c) \/ StuckDelayElapsed(c) \/ InnerSettle(c) \/ StuckInnerDelayElapsed(c)

\* The event loop does not stop while a continuation is ready or a timer is set: it
\* runs one of them.  Callers are not obliged to call or to collect results.
StuckFairness == WF_vars(StuckStep)

SpecStuckLive == SpecStuck /\ StuckFairness

managerVars ==
  <<rows, retryCount, now, calls, lockBudget, begun, nInserted, nDeleted, lastWrite>>

\* MessageManager.getInstance(database) is called: the static field, the number of
\* objects constructed and the record of the call
CallGetInstance(database) ==
  /\ instance' = getInstance(instance, constructed, database)
  /\ constructed' = IF instance' = instance THEN constructed ELSE constructed + 1
  /\ passed' = Append(passed, [handle |-> database, got |-> instance'])

\* A consumer function is called: it calls getMessageManager, which runs to its first
\* await.  That is `await initDatabase()` when there is neither a manager nor a handle:
\* initDatabase has run to its end by then, and the assignment of its result waits for
\* the continuation.
CallConsumer(c) ==
  /\ consumers[c].pc = "idle"
  /\ bootBegun < MaxBootCalls
  /\ IF messageManagerInstance # Null
       THEN /\ consumers' = [consumers EXCEPT ![c] =
                               [@ EXCEPT !.pc = "awaitManager", !.manager = messageManagerInstance]]
            /\ UNCHANGED <<fs, opened, nInitOk, initFailures, instance, constructed,
                           messageManagerInstance, passed>>
     ELSE IF databaseInstance = NoHandle
       THEN /\ \E fail \in {"none"} \cup {st \in InitStages : initFailures > 0 /\ StageRuns(fs, st)} :
                 /\ fs' = initDatabase(fs, fail, opened + 1).fs
                 /\ opened' = opened + initDatabase(fs, fail, opened + 1).opens
                 /\ nInitOk' = IF initDatabase(fs, fail, opened + 1).res.ok
                                 THEN nInitOk + 1 ELSE nInitOk
                 /\ initFailures' = IF fail = "none" THEN initFailures ELSE initFailures - 1
                 /\ consumers' = [consumers EXCEPT ![c] =
                                    [@ EXCEPT !.pc = "awaitInit",
                                              !.init = initDatabase(fs, fail, opened + 1).res]]
            /\ UNCHANGED <<instance, constructed, messageManagerInstance, passed>>
     ELSE /\ CallGetInstance(databaseInstance)
          /\ messageManagerInstance' = instance'
          /\ consumers' = [consumers EXCEPT ![c] =
                             [@ EXCEPT !.pc = "awaitManager", !.manager = instance']]
          /\ UNCHANGED <<fs, opened, nInitOk, initFailures>>
  /\ microtasks' = Append(microtasks, c)
  /\ bootBegun' = bootBegun + 1
  /\ UNCHANGED <<managerVars, databaseInstance>>

\* `await initDatabase()` resumes in getMessageManager: the handle is assigned to
\* databaseInstance and passed to getInstance, or the error is thrown to the caller
ResumeInit(c) ==
  /\ microtasks # <<>> /\ Head(microtasks) = c
  /\ consumers[c].pc = "awaitInit"
  /\ IF consumers[c].init.ok
       THEN /\ databaseInstance' = consumers[c].init.val
            /\ CallGetInstance(consumers[c].init.val)
            /\ messageManagerInstance' = instance'
            /\ consumers' = [consumers EXCEPT ![c] =
                               [@ EXCEPT !.pc = "awaitManager", !.manager = instance']]
            /\ microtasks' = Append(Tail(microtasks), c)
       ELSE /\ consumers' = [consumers EXCEPT ![c].pc = "failed"]
            /\ microtasks' = Tail(microtasks)
            /\ UNCHANGED <<databaseInstance, instance, constructed, messageManagerInstance, passed>>
  /\ UNCHANGED <<managerVars, fs, opened, nInitOk, bootBegun, initFailures>>

\* `await getMessageManager()` resumes in the consumer function: it has its manager
ResumeConsumer(c) ==
  /\ microtasks # <<>> /\ Head(microtasks) = c
  /\ consumers[c].pc = "awaitManager"
  /\ consumers' = [consumers EXCEPT ![c].pc = "hasManager"]
  /\ microtasks' = Tail(microtasks)
  /\ UNCHANGED <<managerVars, fs, opened, nInitOk, instance, constructed,
                 messageManagerInstance, databaseInstance, bootBegun, initFailures, passed>>

\* the consumer function has handed over to the manager method, or has thrown
Finish(c) ==
  /\ consumers[c].pc \in {"hasManager", "failed"}
  /\ consumers' = [consumers EXCEPT ![c] = IdleConsumer]
  /\ UNCHANGED <<managerVars, fs, opened, nInitOk, instance, constructed,
                 messageManagerInstance, databaseInstance, microtasks, bootBegun,
                 initFailures, passed>>

\* code outside the module calls the public MessageManager.getInstance with a handle of its own
DirectGetInstance ==
  /\ bootBegun < MaxBootCalls
  /\ \E h \in ExternalHandles : CallGetInstance(h)
  /\ bootBegun' = bootBegun + 1
  /\ UNCHANGED <<managerVars, fs, opened, nInitOk, messageManagerInstance, databaseInstance,
                 consumers, microtasks, initFailures>>

NextBoot ==
  \/ \E c \in Slots : CallConsumer(c)
  \/ \E c \in Slots : ResumeInit(c)
  \/ \E c \in Slots : ResumeConsumer(c)
  \/ \E c \in Slots : Finish(c)
  \/ DirectGetInstance

\* start-up alone: no manager method is called and the engine is never locked
InitBoot == InitWith(0)

SpecBoot == InitBoot /\ [][NextBoot]_vars

----------------------------------------------------------------------------
(* Properties *)

Done(c) == calls[c].pc = "done"

Valid(cr) == ValidationError(cr.op, cr) = NoError

ReadOps == {"messageExists", "getMessage", "getMessages", "getMessageCount"}

\* the stored row of message id n (there is one)
RowOf(rws, n) == CHOOSE r \in rws : r.message_id = n

\* C1: a call of a read operation that no overlapping call shares its key with returns
\* a value when the engine answers its first two attempts with "database is locked"
\* and the third with a result, whatever calls with its key completed before it; it
\* propagates the error when the engine answers four attempts in a row with it.
C1_LockedTwiceThenSuccess ==
  \A c \in Slots :
    (Done(c) /\ calls[c].op \in ReadOps /\ Valid(calls[c]) /\ calls[c].alone) =>
      /\ calls[c].lockedAtStart = 2 => calls[c].res.ok
      /\ calls[c].lockedAtStart >= 4 => (~calls[c].res.ok /\ calls[c].res.msg = LockedMsg)

\* C2: when a call has finished, by a value or by an error, retryCount holds no entry
\* for a key of the call; when no call is in flight retryCount is empty.
C2_CounterRemoved ==
  /\ \A c \in Slots : Done(c) => KeysOf(calls[c]) \cap DOMAIN retryCount = {}
  /\ (\A c \in Slots : ~InFlight(calls[c])) => DOMAIN retryCount = {}

\* C3 as claimed: a retry-wrapped call invokes its operation at most MAX_RETRIES = 3 times.
C3_AtMostThreeInvocations ==
  \A c \in Slots : calls[c].attempts <= MAX_RETRIES

\* C3 as amended: a retry-wrapped call whose key no overlapping call uses invokes its
\* operation at most MAX_RETRIES + 1 = 4 times, the first attempt and three retries;
\* after the fourth failure it does not wait again: the error is propagated.
C3_AtMostFourInvocations ==
  \A c \in Slots :
    calls[c].alone =>
      /\ calls[c].attempts <= MAX_RETRIES + 1
      /\ calls[c].pc = "delay" => calls[c].attempts <= MAX_RETRIES
      /\ (Done(c) /\ calls[c].op \in ReadOps /\ calls[c].attempts = MAX_RETRIES + 1
            /\ calls[c].lockedAtStart > MAX_RETRIES)
           => (~calls[c].res.ok /\ calls[c].res.msg = LockedMsg)

\* four attempts of one call, all answered with "database is locked": the error is propagated
C3_Witness ==
  \E c \in Slots :
    /\ Done(c) /\ calls[c].alone /\ calls[c].attempts = MAX_RETRIES + 1
    /\ calls[c].lockedAtStart = 4 /\ ~calls[c].res.ok /\ calls[c].res.msg = LockedMsg

\* the calls of insertMessage or deleteMessage whose statement has run and whose
\* success the caller has not been counted for yet
Pending(op) ==
  Cardinality({c \in Slots : calls[c].op = op /\ calls[c].pc = "settle" /\ calls[c].res.ok})

\* C4: under every interleaving of overlapping calls no two rows have the same
\* message_id, and of the insertMessage calls for one message_id at most one more
\* succeeds than deleteMessage calls do: every other one fails.
C4_UniqueMessageId ==
  /\ \A r \in rows, q \in rows : r.message_id = q.message_id => r = q
  /\ \A n \in IdValues : Cardinality(Matching(rows, n)) <= 1
  /\ Cardinality(rows)
       = (nInserted + Pending("insertMessage")) - (nDeleted + Pending("deleteMessage"))
  /\ \A c \in Slots, d \in Slots :
       (/\ c # d
        /\ nDeleted + Pending("deleteMessage") = 0
        /\ calls[c].op = "insertMessage" /\ calls[d].op = "insertMessage"
        /\ calls[c].messageId = calls[d].messageId
        /\ calls[c].pc \in {"settle", "done"} /\ calls[d].pc \in {"settle", "done"})
       => ~(calls[c].res.ok /\ calls[d].res.ok)

\* two insertMessage calls for one message_id have both seen no row; one has inserted
\* and the other has failed
C4_Witness ==
  \E c \in Slots, d \in Slots :
    /\ c # d
    /\ calls[c].op = "insertMessage" /\ calls[d].op = "insertMessage"
    /\ calls[c].messageId = calls[d].messageId
    /\ calls[c].pc \in {"settle", "done"} /\ calls[d].pc \in {"settle", "done"}
    /\ calls[c].xres.ok /\ calls[c].xres.val = FALSE
    /\ calls[d].xres.ok /\ calls[d].xres.val = FALSE
    /\ calls[c].res.ok
    /\ ~calls[d].res.ok /\ ~isRetryableError(calls[d].res.msg)

\* C5: an insertMessage call with valid arguments for a message_id that has a row
\* fails, with the 'already exists' error unless the engine stays locked, and leaves
\* the table as it was: the row keeps its content, created_at and updated_at.
C5_DuplicateInsertFails ==
  \A c \in Slots :
    (/\ Done(c) /\ calls[c].op = "insertMessage" /\ Valid(calls[c])
     /\ Matching(calls[c].before, calls[c].messageId.lo) # {})
    => /\ ~calls[c].res.ok
       /\ calls[c].res.msg = ExistsMsg(calls[c].messageId) \/ calls[c].res.msg = LockedMsg
       /\ calls[c].lockedAtStart = 0 => calls[c].res.msg = ExistsMsg(calls[c].messageId)
       /\ rows = calls[c].before

\* a second insert of a message_id, with another content, has failed with 'already exists'
C5_Witness ==
  \E c \in Slots :
    /\ Done(c) /\ calls[c].op = "insertMessage" /\ Valid(calls[c])
    /\ Matching(calls[c].before, calls[c].messageId.lo) # {}
    /\ RowOf(calls[c].before, calls[c].messageId.lo).content # calls[c].content.chars
    /\ calls[c].res.msg = ExistsMsg(calls[c].messageId)

\* C6: every stored row has updated_at >= created_at.
C6_UpdatedNotBeforeCreated ==
  \A r \in rows : r.updated_at >= r.created_at

\* C7: a successful updateMessage(id, c) on a row with created_at = updated_at = t1
\* sets the row's content to c and its updated_at to a value >= t1, keeps created_at
\* and message_id, and leaves every other row unchanged.
C7_UpdateEffect ==
  \A c \in Slots :
    (/\ Done(c) /\ calls[c].op = "updateMessage" /\ calls[c].res.ok
     /\ Matching(calls[c].before, calls[c].messageId.lo) # {}
     /\ RowOf(calls[c].before, calls[c].messageId.lo).created_at
          = RowOf(calls[c].before, calls[c].messageId.lo).updated_at)
    => LET old == RowOf(calls[c].before, calls[c].messageId.lo)
       IN /\ Matching(rows, calls[c].messageId.lo) # {}
          /\ LET new == RowOf(rows, calls[c].messageId.lo)
             IN /\ new.content = calls[c].content.chars
                /\ new.updated_at >= old.created_at
                /\ new.created_at = old.created_at
                /\ rows \ {new} = calls[c].before \ {old}

\* C8: getMessage(id) returns the record of the arguments of a successful
\* insertMessage(id, c, t1, t1) when no later statement changed the row of id, and
\* null when id has no row.
C8_RoundTrip ==
  \A c \in Slots :
    (Done(c) /\ calls[c].op = "getMessage" /\ calls[c].res.ok) =>
      LET n == calls[c].messageId.lo
          w == lastWrite[n]
      IN /\ (w.kind = "insertMessage" /\ w.args.createdTimestamp = w.args.updatedTimestamp) =>
              /\ calls[c].res.val # Null
              /\ calls[c].res.val.message_id = n
              /\ w.args.messageId = calls[c].messageId
              /\ calls[c].res.val.content = w.args.content.chars
              /\ calls[c].res.val.created_at = w.args.createdTimestamp.lo
              /\ calls[c].res.val.updated_at = w.args.createdTimestamp.lo
         /\ Matching(rows, n) = {} => calls[c].res.val = Null

\* getMessage has returned the record of an insert with created_at = updated_at
C8_Witness ==
  \E c \in Slots :
    /\ Done(c) /\ calls[c].op = "getMessage" /\ calls[c].res.ok
    /\ lastWrite[calls[c].messageId.lo].kind = "insertMessage"
    /\ lastWrite[calls[c].messageId.lo].args.createdTimestamp
         = lastWrite[calls[c].messageId.lo].args.updatedTimestamp
    /\ calls[c].res.val # Null
    /\ Cardinality(rows) = 2

\* C9: messageExists(id) returns true exactly when a row with message_id = id is
\* stored: true after a successful insertMessage or updateMessage of id, false after a
\* successful deleteMessage of id.
C9_ExistsIffStored ==
  \A c \in Slots :
    (Done(c) /\ calls[c].op = "messageExists" /\ calls[c].res.ok) =>
      LET n == calls[c].messageId.lo
      IN /\ calls[c].res.val = (Matching(rows, n) # {})
         /\ lastWrite[n].kind \in {"insertMessage", "updateMessage"} => calls[c].res.val = TRUE
         /\ lastWrite[n].kind = "deleteMessage" => calls[c].res.val = FALSE

\* messageExists has returned false for an id that was inserted and then deleted
C9_Witness ==
  \E c \in Slots :
    /\ Done(c) /\ calls[c].op = "messageExists" /\ calls[c].res.ok
    /\ lastWrite[calls[c].messageId.lo].kind = "deleteMessage"
    /\ calls[c].res.val = FALSE

\* C10: getMessageCount returns the number of successful insertMessage calls minus
\* the number of successful deleteMessage calls; a call that failed, and a call of
\* any other method, leaves the number of rows as it was.
C10_CountIsInsertsMinusDeletes ==
  \A c \in Slots :
    /\ (Done(c) /\ calls[c].op = "getMessageCount" /\ calls[c].res.ok)
         => calls[c].res.val = nInserted - nDeleted
    /\ (Done(c) /\ (~calls[c].res.ok \/ calls[c].op \notin {"insertMessage", "deleteMessage"}))
         => Cardinality(rows) = Cardinality(calls[c].before)

\* getMessageCount has returned after a successful insert and a successful delete
C10_Witness ==
  \E c \in Slots :
    /\ Done(c) /\ calls[c].op = "getMessageCount" /\ calls[c].res.ok
    /\ nInserted >= 1 /\ nDeleted >= 1
    /\ calls[c].res.val = nInserted - nDeleted

\* the not-found error of updateMessage or deleteMessage
NotFoundMsg(cr) ==
  IF cr.op = "updateMessage" THEN UpdateNotFoundMsg(cr.messageId) ELSE DeleteNotFoundMsg

\* C11: an updateMessage or deleteMessage call with valid arguments for a message_id
\* that has no row fails, with the not-found error unless the engine stays locked,
\* and leaves the table as it was: no row is created and no row is changed.
C11_MissingRowNotFound ==
  \A c \in Slots :
    (/\ Done(c) /\ calls[c].op \in {"updateMessage", "deleteMessage"} /\ Valid(calls[c])
     /\ Matching(calls[c].before, calls[c].messageId.lo) = {})
    => /\ ~calls[c].res.ok
       /\ calls[c].res.msg = NotFoundMsg(calls[c]) \/ calls[c].res.msg = LockedMsg
       /\ calls[c].lockedAtStart = 0 => calls[c].res.msg = NotFoundMsg(calls[c])
       /\ rows = calls[c].before

\* an updateMessage of a message_id without a row has failed with not found while
\* another message is stored
C11_Witness ==
  \E c \in Slots :
    /\ Done(c) /\ calls[c].op = "updateMessage" /\ Valid(calls[c])
    /\ Matching(calls[c].before, calls[c].messageId.lo) = {}
    /\ calls[c].before # {}
    /\ calls[c].res.msg = UpdateNotFoundMsg(calls[c].messageId)
    /\ rows = calls[c].before

\* C12: a call of messageExists, getMessage, insertMessage, updateMessage or
\* deleteMessage whose identifier, content or timestamp pair is invalid is rejected
\* with the validation error by its first attempt, before the engine is reached: no
\* lookup runs, no locked answer of the engine is consumed, no retry follows, and the
\* table is as it was.
C12_InvalidRejectedFirst ==
  \A c \in Slots :
    (calls[c].op # "none" /\ ~Valid(calls[c])) =>
      /\ calls[c].pc \in {"settle", "done"}
      /\ ~calls[c].res.ok
      /\ calls[c].res.msg = ValidationError(calls[c].op, calls[c])
      /\ calls[c].attempts = 1 /\ calls[c].delays = 0 /\ calls[c].lookups = 0
      /\ calls[c].locked = calls[c].lockedAtStart
      /\ rows = calls[c].before

\* an insertMessage whose updated_at is earlier than its created_at has been rejected
\* while the engine was locked and a message was stored
C12_Witness ==
  \E c \in Slots :
    /\ Done(c) /\ calls[c].op = "insertMessage"
    /\ calls[c].res.msg = EarlierMsg
    /\ calls[c].lockedAtStart > 0
    /\ calls[c].before # {} /\ rows = calls[c].before

\* the errors of the storage engine that report lock contention
TransientMsgs == {LockedMsg}

\* C13: a call waits for a retry only after an attempt that failed with a transient
\* error of the engine; a call whose attempt failed with a validation, 'already
\* exists' or not-found error has finished with that error, has made no attempt after
\* it, and its key has no counter.
C13_FatalNotRetried ==
  \A c \in Slots :
    /\ calls[c].pc = "delay" => (~calls[c].res.ok /\ calls[c].res.msg \in TransientMsgs)
    /\ calls[c].pc = "xdelay" => (~calls[c].xres.ok /\ calls[c].xres.msg \in TransientMsgs)
    /\ (calls[c].pc \in {"delay", "done"} /\ ~calls[c].res.ok
          /\ calls[c].res.msg \notin TransientMsgs)
         => /\ Done(c)
            /\ RetryKey(calls[c]) \notin DOMAIN retryCount
            /\ calls[c].res.msg \in
                  {ValidationError(calls[c].op, calls[c]), ExistsMsg(calls[c].messageId),
                   NotFoundMsg(calls[c]), UniqueMsg}

\* an updateMessage was retried after a locked answer, then failed with not found and
\* was not tried again
C13_Witness ==
  \E c \in Slots :
    /\ Done(c) /\ calls[c].op = "updateMessage"
    /\ calls[c].attempts = 2 /\ calls[c].delays = 1
    /\ calls[c].res.msg = UpdateNotFoundMsg(calls[c].messageId)
    /\ RetryKey(calls[c]) \notin DOMAIN retryCount

\* C14: every call of getInstance, whatever handle it is given, returns the object the
\* first call constructed, and that object's database is the handle of the first
\* call: one object is constructed and its handle is never replaced.
C14_Singleton ==
  /\ constructed <= 1
  /\ messageManagerInstance \in {Null, instance}
  /\ \A c \in Slots : consumers[c].manager \in {Null, instance}
  /\ passed # <<>> =>
       /\ instance = passed[1].got
       /\ instance.database = passed[1].handle
       /\ \A i \in 1..Len(passed) : passed[i].got = passed[1].got

\* getInstance has been called with a handle that is not the handle of its first call
C14_Witness ==
  \E i \in 1..Len(passed) :
    /\ passed[i].handle # passed[1].handle
    /\ passed[i].got = passed[1].got
    /\ instance.database = passed[1].handle

\* C15: every stored row has the message_id of the call that wrote it, a positive
\* integer not above Number.MAX_SAFE_INTEGER, and a content that is not empty after
\* trimming and has at most MAX_CONTENT_LENGTH bytes in UTF-8.
C15_StoredRowsValid ==
  \A r \in rows :
    /\ r.message_id \in DOMAIN lastWrite
    /\ lastWrite[r.message_id].kind \in {"insertMessage", "updateMessage"}
    /\ LET m == lastWrite[r.message_id].args.messageId
       IN /\ m.lo = r.message_id
          /\ NumberIsInteger(m) /\ ~NumLeZero(m) /\ ~NumGtMaxSafe(m)
    /\ Len(Trim(r.content)) > 0
    /\ ByteLength(r.content) <= MAX_CONTENT_LENGTH

\* an updateMessage with a content that validation rejects was called for a stored
\* message, and the row has kept its content
C15_Witness ==
  \E c \in Slots :
    /\ Done(c) /\ calls[c].op = "updateMessage"
    /\ validateMessageId(calls[c].messageId) = NoError
    /\ calls[c].res.msg \in {NotStringMsg, EmptyMsg, TooLongMsg}
    /\ Matching(rows, calls[c].messageId.lo) # {}
    /\ rows = calls[c].before

\* C16: while getInstance is called by getMessageManager only, initDatabase returns
\* a handle at most once and, when there is a manager, databaseInstance is the handle
\* the manager is bound to.
C16_OpenedOnce ==
  (\A i \in 1..Len(passed) : passed[i].handle \notin ExternalHandles) =>
    /\ nInitOk <= 1
    /\ messageManagerInstance # Null => databaseInstance = messageManagerInstance.database

\* C17: a run of initDatabase that returns a handle returns it for a database file
\* that has the bootstrap schema, so databaseInstance is never the handle of a
\* database without it.
C17_HandleHasSchema ==
  /\ \A c \in Slots :
       (consumers[c].pc = "awaitInit" /\ consumers[c].init.ok) => fs.schema
  /\ databaseInstance # NoHandle => fs.schema

\* C18: an insertMessage call waits at most MAX_RETRIES delays, those of its nested
\* messageExists call included, and runs its existence lookup at most
\* MAX_RETRIES + 1 times, the number of attempts the wrapper gives one call.
C18_NestedRetryBounded ==
  \A c \in Slots :
    calls[c].op = "insertMessage" =>
      /\ calls[c].delays <= MAX_RETRIES
      /\ calls[c].lookups <= MAX_RETRIES + 1

\* no call has returned to its caller yet: every call begun is in its slot
NoneReturned == begun = Cardinality({d \in Slots : calls[d].op # "none"})

\* C19: of calls that are in flight at the same time and use the same key, each has
\* its own retries: it gives up with the engine's error only after MAX_RETRIES + 1
\* attempts, it makes no more attempts than that, and it returns a value when the
\* engine answers at most MAX_RETRIES of its accesses with "database is locked".
C19_SeparateBudgets ==
  \A c \in Slots :
    (Done(c) /\ ~calls[c].alone /\ NoneReturned) =>
      /\ calls[c].attempts <= MAX_RETRIES + 1
      /\ (~calls[c].res.ok /\ calls[c].res.msg = LockedMsg) => calls[c].attempts = MAX_RETRIES + 1
      /\ calls[c].lockedAtStart <= MAX_RETRIES => calls[c].res.ok

\* C20: while the engine answers every access with "database is locked", every call,
\* alone or sharing its keys with overlapping calls, finishes, and by throwing that
\* error to its caller: of the finitely many calls none stays in flight for ever.
C20_EveryCallCompletes ==
  /\ [](\A c \in Slots : Done(c) => (~calls[c].res.ok /\ calls[c].res.msg = LockedMsg))
  /\ <>[](\A c \in Slots : ~InFlight(calls[c]))

\* a call has thrown the error after five attempts: an overlapping call with the same
\* key had cleared the counter
C20_Witness ==
  \E c \in Slots :
    /\ Done(c) /\ ~calls[c].alone
    /\ calls[c].attempts = MAX_RETRIES + 2
    /\ ~calls[c].res.ok /\ calls[c].res.msg = LockedMsg

====
